---- MODULE Spec2Model ----
(***************************************************************************)
(* Budgeted task execution of src/main.py: the UsageTracker counters and   *)
(* the Agent that checks a budget, runs a Task and records usage.          *)
(*                                                                         *)
(* Numbers.  Token counts are Python ints.  estimated_cost, budget_limit   *)
(* and cost_per_1k are Python floats; the model holds them as integers and *)
(* draws cost_per_1k from multiples of 1000, so that                       *)
(*     (total_tokens / 1000) * cost_per_1k = (total_tokens * cost_per_1k)  *)
(*                                            \div 1000                    *)
(* is an integer and the float arithmetic of the code is exact on every    *)
(* value the model reaches.                                                *)
(*                                                                         *)
(* Exceptions.  "raise" stands for raising an instance of Exception.       *)
(***************************************************************************)
EXTENDS Integers, FiniteSets, Sequences, TLC

VARIABLES
    usage_tracker,    \* Agent.usage_tracker: the five UsageTracker fields
    budget_limit,     \* Agent.config.budget_limit
    cost_per_1k,      \* Agent.cost_per_1k
    budget_callback,  \* Agent.budget_callback: "None", "returns" or "raises"
    last_op,          \* history: the operation performed last
    last_args,        \* history: its arguments
    last_ret,         \* history: what it did and gave back to its caller
    before,           \* history: usage_tracker as it was when last_op began
    clean,            \* history: every log_usage so far had arguments >= 0
    after_fault,      \* history: the operation before last_op was an
                      \* execute_task call whose task.execute raised
    fault_before,     \* history: usage_tracker as it was when that faulty
                      \* call began (the fresh tracker if after_fault is
                      \* false)
    halted_since,     \* history: an execute_task call returned "Budget limit
                      \* exceeded" and log_usage has not been called
                      \* directly since
    halt_tracker,     \* history: usage_tracker as it was at the first such
                      \* call (the fresh tracker if halted_since is false)
    only_exec,        \* history: log_usage has never been called directly
    qualifying        \* history: the number of execute_task calls so far in
                      \* which validate_input returned true, the pre-task
                      \* budget check passed, execute returned and
                      \* track_usage was true

vars == <<usage_tracker, budget_limit, cost_per_1k, budget_callback,
          last_op, last_args, last_ret, before, clean, after_fault,
          fault_before, halted_since, halt_tracker, only_exec, qualifying>>

----------------------------------------------------------------------------
(* Bounds and input sets *)

\* log_usage is not performed once calls has reached MaxCalls
MaxCalls == 2

\* Agent(budget_limit=...)
BudgetLimits == {0, 900}

\* Agent(budget_limit=None): Python's None, held as a number that is no
\* budget limit of BudgetLimits.  No arithmetic reads it: the operators test
\* limit = NoneLimit before they compare a cost with the limit.
NoneLimit == -1

\* Agent(cost_per_1k=...)
AgentRates == {0, 2000}

\* log_usage(..., cost_per_1k) called directly
Rates == {-1000, 2000}

\* the fallback usage estimate of execute_task
DefaultPromptTokens == 100
DefaultCompletionTokens == 50

\* **kwargs of execute_task, as far as execute_task reads them
KwargsSet ==
    { [query |-> "q"],
      [query |-> "q", prompt_tokens |-> -200, completion_tokens |-> 50],
      [query |-> "q", prompt_tokens |-> 400] }

\* (prompt_tokens, completion_tokens) of a direct log_usage call
TokenPairs == { <<100, 50>>, <<0, 0>>, <<50, -300>> }

\* A Task is what its two methods do when called.
Tasks ==
    { [validate_input |-> "True",  execute |-> "return"],
      [validate_input |-> "True",  execute |-> "raise"],
      [validate_input |-> "False", execute |-> "return"],
      [validate_input |-> "raise", execute |-> "return"] }

Callbacks == {"None", "returns", "raises"}

\* str(e) of the exception a task's execute raises, and of the one a
\* budget callback raises
TaskFaultMessage == "task fault"
CallbackFaultMessage == "callback fault"
\* str(e) of the TypeError of estimated_cost >= None
TypeErrorMessage == "'>=' not supported between instances of 'float' and 'NoneType'"
\* the value a task's execute returns
TaskResult == "task result"

----------------------------------------------------------------------------
(* UsageTracker *)

\* UsageTracker(): the dataclass defaults
UsageTracker ==
    [total_tokens |-> 0, prompt_tokens |-> 0, completion_tokens |-> 0,
     estimated_cost |-> 0, calls |-> 0]

\* a mutant of log_usage: total_tokens is not recomputed from the new
\* completion_tokens
log_usage_stale_total(self, prompt_tokens, completion_tokens, rate) ==
    LET p == self.prompt_tokens + prompt_tokens
        c == self.completion_tokens + completion_tokens
        t == p + self.completion_tokens
    IN  [total_tokens |-> t, prompt_tokens |-> p, completion_tokens |-> c,
         estimated_cost |-> self.estimated_cost + ((t * rate) \div 1000),
         calls |-> self.calls + 1]

\* a mutant of log_usage: estimated_cost is assigned, not accumulated
log_usage_assign_cost(self, prompt_tokens, completion_tokens, rate) ==
    LET p == self.prompt_tokens + prompt_tokens
        c == self.completion_tokens + completion_tokens
        t == p + c
    IN  [total_tokens |-> t, prompt_tokens |-> p, completion_tokens |-> c,
         estimated_cost |-> (t * rate) \div 1000,
         calls |-> self.calls + 1]

\* UsageTracker.log_usage: the tracker after the call
log_usage(self, prompt_tokens, completion_tokens, rate) ==
    LET p == self.prompt_tokens + prompt_tokens
        c == self.completion_tokens + completion_tokens
        t == p + c
    IN  [total_tokens |-> t, prompt_tokens |-> p, completion_tokens |-> c,
         estimated_cost |-> self.estimated_cost + ((t * rate) \div 1000),
         calls |-> self.calls + 1]

\* a mutant of is_budget_exceeded: a cost equal to the limit is not exceeded
is_budget_exceeded_strict(self, limit) ==
    self.estimated_cost > limit

\* UsageTracker.is_budget_exceeded, the value returned for a number limit
is_budget_exceeded(self, limit) ==
    self.estimated_cost >= limit

\* UsageTracker.is_budget_exceeded raises TypeError instead of returning:
\* a float and None are not ordered
is_budget_exceeded_raises(self, limit) ==
    limit = NoneLimit

----------------------------------------------------------------------------
(* Agent *)

\* a mutant of kwargs.get: the key is never found (a misspelt key), so the
\* default is always taken
kwargs_get_default_only(kwargs, key, default) ==
    default

\* kwargs.get(key, default)
kwargs_get(kwargs, key, default) ==
    IF key \in DOMAIN kwargs THEN kwargs[key] ELSE default

\* What one execute_task call did and gave back, before any of it is known:
\* outcome "returned" (a mapping came back) or "raised" (an exception reached
\* the caller, raised_by whom); status, message, result and within_budget are
\* the mapping's entries ("absent": the mapping has no such key); executed:
\* task.execute was invoked; budget_checks: calls of check_budget;
\* cb_calls: invocations of the budget callback; halted: the pre-task budget
\* check refused the task; logged: log_usage was called; tracker: the
\* tracker when the call ended.
Outcome(tracker) ==
    [outcome |-> "returned", raised_by |-> "", status |-> "absent",
     message |-> "absent", result |-> "absent", within_budget |-> "absent",
     executed |-> FALSE, budget_checks |-> 0, cb_calls |-> 0,
     halted |-> FALSE, logged |-> FALSE, tracker |-> tracker]

\* a mutant of check_budget: the "return False" of the exceeded branch is
\* lost, so the method falls through to "return True"
check_budget_no_refusal(tracker, limit, callback) ==
    IF is_budget_exceeded_raises(tracker, limit)
    THEN [within |-> FALSE, cb_calls |-> 0, raised |-> FALSE,
          type_error |-> TRUE]
    ELSE IF is_budget_exceeded(tracker, limit)
    THEN [within |-> TRUE,
          cb_calls |-> IF callback # "None" THEN 1 ELSE 0,
          raised |-> callback = "raises", type_error |-> FALSE]
    ELSE [within |-> TRUE, cb_calls |-> 0, raised |-> FALSE,
          type_error |-> FALSE]

\* Agent.check_budget: within (the value returned), cb_calls (invocations of
\* the callback), raised (the callback raised, so nothing is returned),
\* type_error (is_budget_exceeded raised TypeError, so nothing is returned
\* and the callback is not reached)
check_budget(tracker, limit, callback) ==
    IF is_budget_exceeded_raises(tracker, limit)
    THEN [within |-> FALSE, cb_calls |-> 0, raised |-> FALSE,
          type_error |-> TRUE]
    ELSE IF is_budget_exceeded(tracker, limit)
    THEN [within |-> FALSE,
          cb_calls |-> IF callback # "None" THEN 1 ELSE 0,
          raised |-> callback = "raises", type_error |-> FALSE]
    ELSE [within |-> TRUE, cb_calls |-> 0, raised |-> FALSE,
          type_error |-> FALSE]

\* execute_task, validate_input returned false
invalid_input_result(tracker) ==
    [Outcome(tracker) EXCEPT !.status = "error",
                             !.message = "Invalid input parameters"]

\* a mutant of the refusal: the tracker is reset when the budget halts a task
budget_halt_result_reset(tracker, pre) ==
    [Outcome(UsageTracker) EXCEPT !.status = "error",
                                  !.message = "Budget limit exceeded",
                                  !.within_budget = "False",
                                  !.budget_checks = 1,
                                  !.cb_calls = pre.cb_calls,
                                  !.halted = TRUE]

\* execute_task, the pre-task check_budget() call when it does not return
\* true: it raised, or it returned false and the task is refused
budget_halt_result(tracker, pre) ==
    IF pre.type_error
    THEN [Outcome(tracker) EXCEPT !.outcome = "raised",
                                  !.raised_by = "TypeError",
                                  !.budget_checks = 1]
    ELSE IF pre.raised
    THEN [Outcome(tracker) EXCEPT !.outcome = "raised",
                                  !.raised_by = "budget_callback",
                                  !.budget_checks = 1,
                                  !.cb_calls = pre.cb_calls,
                                  !.halted = TRUE]
    ELSE [Outcome(tracker) EXCEPT !.status = "error",
                                  !.message = "Budget limit exceeded",
                                  !.within_budget = "False",
                                  !.budget_checks = 1,
                                  !.cb_calls = pre.cb_calls,
                                  !.halted = TRUE]

\* a mutant of the except clause: the exception is raised again
task_exception_result_reraise(seen, message) ==
    [seen EXCEPT !.outcome = "raised", !.raised_by = "task"]

\* execute_task, the except clause: seen is what the try block had done
\* when the exception was raised
task_exception_result(seen, message) ==
    [seen EXCEPT !.status = "error", !.message = message]

\* a mutant of the try block: usage is logged whether or not track_usage
\* is set
try_block_always_logs(tracker, limit, rate, callback, task, track_usage, kwargs) ==
    LET entered == [Outcome(tracker) EXCEPT !.budget_checks = 1,
                                            !.executed = TRUE]
    IN  IF task.execute = "raise"
        THEN task_exception_result(entered, TaskFaultMessage)
        ELSE
          LET tracked ==
                IF TRUE
                THEN log_usage(tracker,
                       kwargs_get(kwargs, "prompt_tokens", DefaultPromptTokens),
                       kwargs_get(kwargs, "completion_tokens",
                                  DefaultCompletionTokens),
                       rate)
                ELSE tracker
              post == check_budget(tracked, limit, callback)
              done == [entered EXCEPT !.tracker = tracked,
                                      !.logged = TRUE,
                                      !.budget_checks = 2,
                                      !.cb_calls = post.cb_calls]
          IN  IF post.type_error
              THEN task_exception_result(done, TypeErrorMessage)
              ELSE IF post.raised
              THEN task_exception_result(done, CallbackFaultMessage)
              ELSE [done EXCEPT !.status = "success",
                                !.result = TaskResult,
                                !.within_budget =
                                    IF post.within THEN "True" ELSE "False"]

\* execute_task, the try block, entered after the pre-task check passed
try_block(tracker, limit, rate, callback, task, track_usage, kwargs) ==
    LET entered == [Outcome(tracker) EXCEPT !.budget_checks = 1,
                                            !.executed = TRUE]
    IN  IF task.execute = "raise"
        THEN task_exception_result(entered, TaskFaultMessage)
        ELSE
          LET tracked ==
                IF track_usage
                THEN log_usage(tracker,
                       kwargs_get(kwargs, "prompt_tokens", DefaultPromptTokens),
                       kwargs_get(kwargs, "completion_tokens",
                                  DefaultCompletionTokens),
                       rate)
                ELSE tracker
              post == check_budget(tracked, limit, callback)
              done == [entered EXCEPT !.tracker = tracked,
                                      !.logged = track_usage,
                                      !.budget_checks = 2,
                                      !.cb_calls = post.cb_calls]
          IN  IF post.type_error
              THEN task_exception_result(done, TypeErrorMessage)
              ELSE IF post.raised
              THEN task_exception_result(done, CallbackFaultMessage)
              ELSE [done EXCEPT !.status = "success",
                                !.result = TaskResult,
                                !.within_budget =
                                    IF post.within THEN "True" ELSE "False"]

\* a mutant of execute_task: the budget is checked before the input
execute_task_budget_first(tracker, limit, rate, callback, task, track_usage, kwargs) ==
    LET pre == check_budget(tracker, limit, callback)
    IN  IF ~pre.within
        THEN budget_halt_result(tracker, pre)
        ELSE IF task.validate_input = "raise"
        THEN [Outcome(tracker) EXCEPT !.outcome = "raised",
                                      !.raised_by = "validate_input",
                                      !.budget_checks = 1]
        ELSE IF task.validate_input = "False"
        THEN [invalid_input_result(tracker) EXCEPT !.budget_checks = 1]
        ELSE try_block(tracker, limit, rate, callback, task, track_usage,
                       kwargs)

\* Agent.execute_task
execute_task(tracker, limit, rate, callback, task, track_usage, kwargs) ==
    IF task.validate_input = "raise"
    THEN [Outcome(tracker) EXCEPT !.outcome = "raised",
                                  !.raised_by = "validate_input"]
    ELSE IF task.validate_input = "False"
    THEN invalid_input_result(tracker)
    ELSE LET pre == check_budget(tracker, limit, callback)
         IN  IF ~pre.within
             THEN budget_halt_result(tracker, pre)
             ELSE try_block(tracker, limit, rate, callback, task,
                            track_usage, kwargs)

----------------------------------------------------------------------------
(* The state machine *)

\* last_args while no call with arguments has been made
NoArgs ==
    [task |-> [validate_input |-> "True", execute |-> "return"],
     track_usage |-> FALSE, kwargs |-> [query |-> "q"],
     prompt_tokens |-> 0, completion_tokens |-> 0, rate |-> 0]

\* Agent(budget_limit=..., cost_per_1k=...)
Init ==
    /\ usage_tracker = UsageTracker
    /\ budget_limit \in BudgetLimits
    /\ cost_per_1k \in AgentRates
    /\ budget_callback = "None"
    /\ last_op = "init"
    /\ last_args = NoArgs
    /\ last_ret = Outcome(UsageTracker)
    /\ before = UsageTracker
    /\ clean = TRUE
    /\ after_fault = FALSE
    /\ fault_before = UsageTracker
    /\ halted_since = FALSE
    /\ halt_tracker = UsageTracker
    /\ only_exec = TRUE
    /\ qualifying = 0

\* Agent(budget_limit=None, cost_per_1k=...)
InitNoLimit ==
    /\ usage_tracker = UsageTracker
    /\ budget_limit = NoneLimit
    /\ cost_per_1k \in AgentRates
    /\ budget_callback = "None"
    /\ last_op = "init"
    /\ last_args = NoArgs
    /\ last_ret = Outcome(UsageTracker)
    /\ before = UsageTracker
    /\ clean = TRUE
    /\ after_fault = FALSE
    /\ fault_before = UsageTracker
    /\ halted_since = FALSE
    /\ halt_tracker = UsageTracker
    /\ only_exec = TRUE
    /\ qualifying = 0

\* agent.set_budget_callback(callback)
SetBudgetCallback ==
    \E callback \in Callbacks :
        /\ budget_callback' = callback
        /\ last_op' = "set_budget_callback"
        /\ last_args' = NoArgs
        /\ last_ret' = Outcome(usage_tracker)
        /\ before' = usage_tracker
        /\ after_fault' = FALSE
        /\ fault_before' = UsageTracker
        /\ UNCHANGED <<usage_tracker, budget_limit, cost_per_1k, clean,
                       halted_since, halt_tracker, only_exec, qualifying>>

\* agent.usage_tracker.log_usage(prompt_tokens, completion_tokens, rate)
LogUsage ==
    \E pc \in TokenPairs, rate \in Rates :
        /\ usage_tracker.calls < MaxCalls
        /\ usage_tracker' = log_usage(usage_tracker, pc[1], pc[2], rate)
        /\ last_op' = "log_usage"
        /\ last_args' = [NoArgs EXCEPT !.prompt_tokens = pc[1],
                                       !.completion_tokens = pc[2],
                                       !.rate = rate]
        /\ last_ret' = [Outcome(usage_tracker') EXCEPT !.logged = TRUE]
        /\ before' = usage_tracker
        /\ clean' = (clean /\ pc[1] >= 0 /\ pc[2] >= 0 /\ rate >= 0)
        /\ after_fault' = FALSE
        /\ fault_before' = UsageTracker
        /\ halted_since' = FALSE
        /\ halt_tracker' = UsageTracker
        /\ only_exec' = FALSE
        /\ UNCHANGED <<budget_limit, cost_per_1k, budget_callback,
                       qualifying>>

\* agent.execute_task(task, track_usage, **kwargs)
ExecuteTask ==
    \E task \in Tasks, track_usage \in BOOLEAN, kwargs \in KwargsSet :
        LET ret == execute_task(usage_tracker, budget_limit, cost_per_1k,
                                budget_callback, task, track_usage, kwargs)
            p == kwargs_get(kwargs, "prompt_tokens", DefaultPromptTokens)
            c == kwargs_get(kwargs, "completion_tokens",
                            DefaultCompletionTokens)
            refused == /\ ret.outcome = "returned"
                       /\ ret.message = "Budget limit exceeded"
            qualifies == /\ task.validate_input = "True"
                         /\ ret.budget_checks >= 1
                         /\ ~ret.halted
                         /\ ret.outcome = "returned"
                         /\ ret.executed
                         /\ task.execute = "return"
                         /\ track_usage
        IN  /\ ret.tracker.calls <= MaxCalls
            /\ usage_tracker' = ret.tracker
            /\ last_op' = "execute_task"
            /\ last_args' = [task |-> task, track_usage |-> track_usage,
                             kwargs |-> kwargs, prompt_tokens |-> p,
                             completion_tokens |-> c, rate |-> cost_per_1k]
            /\ last_ret' = ret
            /\ before' = usage_tracker
            /\ clean' = (clean /\ (ret.logged =>
                                     p >= 0 /\ c >= 0 /\ cost_per_1k >= 0))
            /\ after_fault' = (last_op = "execute_task"
                               /\ last_ret.executed
                               /\ last_args.task.execute = "raise")
            /\ fault_before' = IF after_fault' THEN before ELSE UsageTracker
            /\ halted_since' = (halted_since \/ refused)
            /\ halt_tracker' = IF halted_since THEN halt_tracker
                               ELSE IF refused THEN usage_tracker
                               ELSE UsageTracker
            /\ qualifying' = IF qualifies THEN qualifying + 1 ELSE qualifying
            /\ UNCHANGED <<budget_limit, cost_per_1k, budget_callback,
                           only_exec>>

Next == SetBudgetCallback \/ LogUsage \/ ExecuteTask

Spec == Init /\ [][Next]_vars

\* the agent constructed without a budget limit
SpecNoLimit == InitNoLimit /\ [][Next]_vars

----------------------------------------------------------------------------
(* What the claims speak of *)

\* the last operation was an execute_task call
IsExecuteTask == last_op = "execute_task"

\* ... whose task.validate_input returned true
Validated == IsExecuteTask /\ last_args.task.validate_input = "True"

\* the budget was exceeded when the last operation began
ExceededBefore == before.estimated_cost >= budget_limit

\* the last operation called log_usage with a negative token count
NegativeUsage ==
    /\ last_ret.logged
    /\ (last_args.prompt_tokens < 0 \/ last_args.completion_tokens < 0)

\* the last call returned the mapping of a budget halt
ReturnedBudgetHalt ==
    /\ last_ret.outcome = "returned"
    /\ last_ret.status = "error"
    /\ last_ret.message = "Budget limit exceeded"
    /\ last_ret.within_budget = "False"

----------------------------------------------------------------------------
(* C1 *)

\* C1, as stated: an execute_task call whose input is valid and that finds
\* estimated_cost >= budget_limit at the pre-task check does not invoke
\* execute, leaves every usage counter unchanged, and returns status "error",
\* message "Budget limit exceeded", within_budget false.
C1_BudgetHaltReturnsError ==
    (Validated /\ ExceededBefore) =>
        /\ ~last_ret.executed
        /\ usage_tracker = before
        /\ ReturnedBudgetHalt

\* C1, amended: such a call never invokes execute and never changes a usage
\* counter; it returns the budget-halt mapping when no callback is registered
\* or the registered callback returns, and when the registered callback
\* raises, that exception reaches the caller and no mapping is returned.
C1_BudgetHalt ==
    (Validated /\ ExceededBefore) =>
        /\ ~last_ret.executed
        /\ ~last_ret.logged
        /\ usage_tracker = before
        /\ IF budget_callback = "raises"
           THEN /\ last_ret.outcome = "raised"
                /\ last_ret.raised_by = "budget_callback"
           ELSE ReturnedBudgetHalt

\* a task that would have run and logged usage is refused after earlier
\* calls brought the cost to the limit
C1_Witness ==
    /\ Validated /\ ExceededBefore
    /\ budget_limit > 0
    /\ last_args.task.execute = "return"
    /\ last_args.track_usage
    /\ budget_callback = "returns"
    /\ ReturnedBudgetHalt

----------------------------------------------------------------------------
(* C2 *)

\* C2: every log_usage call adds ((promptTokens + completionTokens of this
\* call) / 1000) * costPer1000Tokens to estimated_cost.
C2_CostOfThisCall ==
    last_ret.logged =>
        usage_tracker.estimated_cost - before.estimated_cost
          = ((last_args.prompt_tokens + last_args.completion_tokens)
                * last_args.rate) \div 1000

----------------------------------------------------------------------------
(* C3 *)

\* C3: in every reachable state total_tokens = prompt_tokens +
\* completion_tokens.
C3_TotalIsSum ==
    usage_tracker.total_tokens
      = usage_tracker.prompt_tokens + usage_tracker.completion_tokens

\* two log_usage calls, the second through execute_task, both counters used
C3_Witness ==
    /\ IsExecuteTask /\ last_ret.logged
    /\ usage_tracker.calls = 2
    /\ usage_tracker.prompt_tokens > 0
    /\ usage_tracker.completion_tokens > 0
    /\ usage_tracker.completion_tokens # before.completion_tokens

----------------------------------------------------------------------------
(* C4 *)

\* the last call invoked task.execute, which raised
TaskFaulted ==
    IsExecuteTask /\ last_ret.executed /\ last_args.task.execute = "raise"

\* C4: when task.execute raises, the call returns status "error" with the
\* fault's message and changes no counter; the next call, if its input is
\* valid and the budget is not exceeded, invokes its task and does and
\* returns what the same call does on the agent as it was before the faulty
\* call.
C4_FaultContained ==
    /\ TaskFaulted =>
          /\ last_ret.outcome = "returned"
          /\ last_ret.status = "error"
          /\ last_ret.message = TaskFaultMessage
          /\ usage_tracker = before
    /\ (after_fault /\ Validated /\ ~ExceededBefore) =>
          /\ last_ret.executed
          /\ last_ret = execute_task(fault_before, budget_limit, cost_per_1k,
                                     budget_callback, last_args.task,
                                     last_args.track_usage, last_args.kwargs)

\* a faulty call was followed by a call that succeeded and logged usage
C4_Witness ==
    /\ after_fault /\ Validated /\ ~ExceededBefore
    /\ last_ret.status = "success"
    /\ last_ret.logged
    /\ usage_tracker.calls = before.calls + 1

----------------------------------------------------------------------------
(* C5 *)

\* C5: when validate_input returns false, execute_task returns status
\* "error" without a budget check, without invoking the budget callback,
\* without invoking execute and without changing a usage counter.
C5_InvalidInputShortCircuit ==
    (IsExecuteTask /\ last_args.task.validate_input = "False") =>
        /\ last_ret.outcome = "returned"
        /\ last_ret.status = "error"
        /\ last_ret.budget_checks = 0
        /\ last_ret.cb_calls = 0
        /\ ~last_ret.executed
        /\ usage_tracker = before

\* invalid input met an exceeded budget and a registered callback
C5_Witness ==
    /\ IsExecuteTask /\ last_args.task.validate_input = "False"
    /\ ExceededBefore
    /\ budget_limit > 0
    /\ budget_callback # "None"
    /\ last_ret.message = "Invalid input parameters"

----------------------------------------------------------------------------
(* C6 *)

\* C6: is_budget_exceeded(limit) is true exactly when estimated_cost >= limit
\* (so the pre-task check refuses exactly then), and an agent with
\* budget_limit 0 refuses its first task.
C6_ExceededIffAtLeast ==
    /\ \A limit \in BudgetLimits \cup {usage_tracker.estimated_cost} :
          is_budget_exceeded(usage_tracker, limit)
            <=> usage_tracker.estimated_cost >= limit
    /\ Validated => (last_ret.halted <=> ExceededBefore)
    /\ (Validated /\ budget_limit = 0 /\ before = UsageTracker) =>
          /\ last_ret.halted
          /\ ~last_ret.executed

\* a task was refused with the cost exactly at a positive limit
C6_Witness ==
    /\ Validated
    /\ budget_limit > 0
    /\ before.estimated_cost = budget_limit
    /\ last_ret.halted
    /\ ~last_ret.executed

----------------------------------------------------------------------------
(* C7 *)

\* C7: an execute_task call invokes the registered budget callback once if
\* the call is halted by budget and not at all otherwise.
C7_CallbackOnlyOnHalt ==
    (IsExecuteTask /\ budget_callback # "None") =>
        last_ret.cb_calls = (IF last_ret.halted THEN 1 ELSE 0)

----------------------------------------------------------------------------
(* C8 *)

\* C8: as long as every log_usage call had non-negative promptTokens,
\* completionTokens and costPer1000Tokens, estimated_cost is >= 0 and no
\* operation decreases it.
C8_CostNonDecreasing ==
    clean =>
        /\ usage_tracker.estimated_cost >= 0
        /\ usage_tracker.estimated_cost >= before.estimated_cost

\* a second log_usage with non-negative arguments raised a positive cost
C8_Witness ==
    /\ clean
    /\ last_ret.logged
    /\ before.estimated_cost > 0
    /\ usage_tracker.estimated_cost > before.estimated_cost

----------------------------------------------------------------------------
(* C9 *)

\* C9: a log_usage call with a negative promptTokens or completionTokens,
\* direct or made by execute_task, raises InvalidUsageError to the caller and
\* changes no counter, so no counter is ever negative.
C9_NegativeUsageRejected ==
    /\ NegativeUsage =>
          /\ last_ret.outcome = "raised"
          /\ last_ret.raised_by = "InvalidUsageError"
          /\ usage_tracker = before
    /\ usage_tracker.prompt_tokens >= 0
    /\ usage_tracker.completion_tokens >= 0
    /\ usage_tracker.total_tokens >= 0

----------------------------------------------------------------------------
(* C10 *)

\* C10: execute_task returns a mapping with status "success" or "error" and
\* never raises because of what the task does, be it validate_input or
\* execute that raises.
C10_AlwaysStructuredResult ==
    IsExecuteTask =>
        \/ /\ last_ret.outcome = "returned"
           /\ last_ret.status \in {"success", "error"}
        \/ /\ last_ret.outcome = "raised"
           /\ last_ret.raised_by \notin {"validate_input", "task"}

----------------------------------------------------------------------------
(* C11 *)

\* C11: with budget_limit None, is_budget_exceeded returns false whatever
\* the cost, so every execute_task call with valid input invokes its task,
\* is not halted, and the budget callback is never invoked.
C11_NoLimitNeverHalts ==
    budget_limit = NoneLimit =>
        /\ Validated =>
              /\ last_ret.executed
              /\ ~last_ret.halted
              /\ last_ret.outcome = "returned"
        /\ IsExecuteTask => last_ret.cb_calls = 0

----------------------------------------------------------------------------
(* C12 *)

\* C12: once an execute_task call has been refused with "Budget limit
\* exceeded", no later execute_task call invokes a task's execute and the
\* usage counters keep the values they had at that first refusal.
C12_HardStop ==
    halted_since =>
        /\ usage_tracker = halt_tracker
        /\ IsExecuteTask => (~last_ret.executed /\ ~last_ret.logged)

\* after a refusal that returned, a raising callback was registered and a
\* later call with valid input, a returning task and track_usage was made:
\* it is a call later than the first refusal, and it ran nothing
C12_Witness ==
    /\ halted_since
    /\ budget_limit > 0
    /\ Validated
    /\ last_args.task.execute = "return"
    /\ last_args.track_usage
    /\ last_ret.outcome = "raised"
    /\ usage_tracker.calls > 0

----------------------------------------------------------------------------
(* C13 *)

\* C13: a successful execute_task call with track_usage false changes no
\* usage counter; with track_usage true it logs usage exactly once, with the
\* caller's prompt_tokens and completion_tokens, or 100 and 50 where absent.
C13_UsageRecordedIffTracked ==
    (IsExecuteTask /\ last_ret.status = "success") =>
        IF last_args.track_usage
        THEN LET kw == last_args.kwargs
                 p == IF "prompt_tokens" \in DOMAIN kw
                      THEN kw.prompt_tokens ELSE 100
                 c == IF "completion_tokens" \in DOMAIN kw
                      THEN kw.completion_tokens ELSE 50
             IN  /\ usage_tracker.prompt_tokens = before.prompt_tokens + p
                 /\ usage_tracker.completion_tokens
                      = before.completion_tokens + c
                 /\ usage_tracker.total_tokens = before.total_tokens + p + c
                 /\ usage_tracker.calls = before.calls + 1
                 /\ usage_tracker = log_usage(before, p, c, cost_per_1k)
        ELSE usage_tracker = before

\* a successful tracked call given prompt_tokens but no completion_tokens,
\* on a tracker already used
C13_Witness ==
    /\ IsExecuteTask /\ last_ret.status = "success"
    /\ last_args.track_usage
    /\ "prompt_tokens" \in DOMAIN last_args.kwargs
    /\ "completion_tokens" \notin DOMAIN last_args.kwargs
    /\ before.calls = 1
    /\ usage_tracker.completion_tokens = before.completion_tokens + 50

----------------------------------------------------------------------------
(* C14 *)

\* the last execute_task call passed validation and the pre-task budget
\* check, its execute returned, and track_usage was true
LastQualifies ==
    /\ Validated
    /\ ~ExceededBefore
    /\ last_args.task.execute = "return"
    /\ last_args.track_usage

\* C14: while the agent is driven only through execute_task, calls is the
\* number of execute_task calls that passed validation and the pre-task
\* budget check, whose execute returned and whose track_usage was true; an
\* execute_task call of any other kind leaves calls unchanged.
C14_CallsCountsTrackedSuccesses ==
    /\ only_exec => usage_tracker.calls = qualifying
    /\ IsExecuteTask =>
          usage_tracker.calls
            = before.calls + (IF LastQualifies THEN 1 ELSE 0)

\* two counted calls, then a call whose task raised
C14_Witness ==
    /\ only_exec
    /\ qualifying = 2
    /\ usage_tracker.calls = 2
    /\ TaskFaulted

----------------------------------------------------------------------------
(* C15 *)

\* C15: whatever the task and the budget callback, a raising one included,
\* an execute_task call that changes a usage counter returns status
\* "success" with the task's result, and a call that returns status "error"
\* leaves every usage counter as it was.
C15_CountersChangeOnlyOnSuccess ==
    IsExecuteTask =>
        /\ usage_tracker # before =>
              /\ last_ret.outcome = "returned"
              /\ last_ret.status = "success"
              /\ last_ret.result = TaskResult
        /\ last_ret.status = "error" => usage_tracker = before

----------------------------------------------------------------------------
(* C16 *)

\* C16: within_budget of a successful result is true iff estimated_cost
\* after recording is below budget_limit; the call whose usage brings the
\* cost from below the limit to or over it returns status "success" with
\* within_budget false; and the call after it is refused.
C16_WithinBudgetAfterRecording ==
    /\ (IsExecuteTask /\ last_ret.status = "success") =>
          (last_ret.within_budget = "True"
             <=> usage_tracker.estimated_cost < budget_limit)
    /\ (Validated /\ ~ExceededBefore /\ last_ret.logged
          /\ usage_tracker.estimated_cost >= budget_limit) =>
          /\ last_ret.status = "success"
          /\ last_ret.within_budget = "False"
    /\ (Validated /\ ExceededBefore) =>
          /\ last_ret.halted
          /\ ~last_ret.executed

====
